---- MODULE Spec2Model ----
(***************************************************************************)
(* Model of whatsapp-automessage: the config-based program (main loop,     *)
(* completion ledger, template rendering) and the WhatsApp client          *)
(* (SendMessage retry loop, rate limiter, sendMessageAttempt).             *)
(*                                                                         *)
(* Strings are TLA+ strings; fmt.Sprintf concatenation is \o.              *)
(* Durations are in milliseconds (time.Duration is in nanoseconds; every   *)
(* duration the bounds below produce is a whole number of milliseconds).   *)
(***************************************************************************)
EXTENDS Integers, Sequences, FiniteSets, TLC

VARIABLES
    csvFile,        \* completed.csv on disk: [exists, records]
    contacts,       \* []Contact returned by ParseCSV for this run
    template,       \* MessageTemplate.Content of this run
    dryRun,         \* the -dry-run flag of this run
    pc,             \* position of main: "tracker", "browser", "loop", "done", "exit"
    completed,      \* CompletedTracker.completed: hash -> CompletedContact
    idx,            \* 1-based index of the next contact of the range loop
    successCount, failureCount, skippedCount,
    results,        \* []MessageResult
    processed,      \* per contact handled by the loop: how its iteration ended
    browserUp,      \* whatsappClient.Initialize() was called in this run
    sendCalls,      \* SendMessage calls of this run
    markCalls,      \* number of MarkCompleted calls of this run
    run,            \* number of the current run
    delivered,      \* <<phone, message>> pairs sent and recorded in completed.csv
    startFile,      \* completed.csv as it was when this run started
    startCompleted, \* the in-memory ledger right after NewCompletedTracker
    retryCfg,       \* config.Retry
    sendTrace,      \* the last SendMessage call: attempts made, sleeps, result
    attemptRes,     \* the last sendMessageAttempt call: what it did and returned
    attemptCall,    \* the last sendMessageAttempt call: its configuration and browser
    interval,       \* period of the rate limiter's ticker, ms
    now,            \* clock, ms
    tickerNext,     \* time of the rate limiter's next tick
    tickBuffered,   \* the ticker channel (capacity 1) holds a tick
    firstAttemptAt, \* start times of the first attempts of the SendMessage calls
    ratePc,         \* position of the caller of SendMessage in the paced loop
    markErr,        \* what the MarkCompleted call of the round trip returned
    reload,         \* the tracker constructed after it: [err, isCompleted]
    summary,        \* what main logs after the loop, and its exit code
    parseInput,     \* the contacts CSV file handed to ParseCSV: [exists, records]
    parsed,         \* what ParseCSV returned: [err, contacts]
    templateData,   \* per parsed contact, the map Render passes to the template
    initPc,         \* position of Initialize: "off", "open", "waiting", "returned"
    initErr,        \* what Initialize returned
    goPc,           \* the waiting goroutine: "none", "running", "sending", "exited"
    goResult,       \* what chromedp.Run(WaitVisible) returned in the goroutine
    done,           \* the channel done (capacity 1)
    sentCount,      \* number of sends on done
    clock,          \* seconds since the wait began
    qrTimeout,      \* config.Browser.QRTimeoutSeconds
    panel,          \* whether and when the side panel becomes visible
    browserGone,    \* the browser was closed during the wait
    progressTick,   \* the progress ticker: [next, pending]
    progressLogs,   \* number of "Still waiting" lines logged
    fContacts,      \* flag-based program: []contact read from the contacts CSV
    fTemplate,      \* flag-based program: the message template text
    fFile,          \* flag-based program: completed.csv, [exists, records]
    fCompleted,     \* flag-based program: the map completed, as a set of numbers
    fPc,            \* flag-based main: "off", "start", "loop", "done", "fatal", "hung"
    fIdx,           \* 1-based index of the next contact of its range loop
    fCalls,         \* the sendMessage calls of this run
    fProcessed,     \* how each iteration of this run ended, and the rows it added
    fSlept,         \* seconds slept since the last sendMessage call returned
    fRun,           \* number of the current run of the flag-based program
    fStartNumbers,  \* the number column of completed.csv when this run started
    fAppended,      \* numbers whose appendCompleted returned nil, in any run
    fMinDelay,      \* -min-delay, seconds
    fMaxDelay,      \* -max-delay, seconds
    hTemplate,      \* hashing: the template text the trackers are built with
    hFile,          \* hashing: completed.csv, [exists, records]
    hTracker,       \* hashing: CompletedTracker.completed of the current run
    hRun,           \* hashing: number of the current run
    hCalls          \* hashing: the MarkCompleted and IsCompleted calls made

mainVars == <<csvFile, contacts, template, dryRun, pc, completed, idx,
              successCount, failureCount, skippedCount, results, processed,
              browserUp, sendCalls, markCalls, run, delivered, startFile,
              startCompleted>>
sendVars == <<retryCfg, sendTrace>>
attemptVars == <<attemptRes, attemptCall>>
rateVars == <<interval, now, tickerNext, tickBuffered, firstAttemptAt, ratePc>>
ledgerVars == <<markErr, reload>>
parseVars == <<parseInput, parsed, templateData>>
initVars == <<initPc, initErr, goPc, goResult, done, sentCount, clock, qrTimeout,
              panel, browserGone, progressTick, progressLogs>>
flagVars == <<fContacts, fTemplate, fFile, fCompleted, fPc, fIdx, fCalls,
              fProcessed, fSlept, fRun, fStartNumbers, fAppended, fMinDelay,
              fMaxDelay>>
hashVars == <<hTemplate, hFile, hTracker, hRun, hCalls>>
lastVars == <<hashVars>>
moreVars == <<parseVars, initVars, flagVars, lastVars>>
otherVars == <<ledgerVars, summary, moreVars>>
vars == <<mainVars, sendVars, attemptVars, rateVars, otherVars>>

----------------------------------------------------------------------------
(* Bounds *)

MaxContacts == 2
MaxRuns == 2

Min(a, b) == IF a <= b THEN a ELSE b

----------------------------------------------------------------------------
(* Contacts, as ParseCSV returns them *)

NoFields == [k \in {} |-> ""]

Ann == [Name |-> "Ann", PhoneNumber |-> "111", Fields |-> NoFields]
AnnCode == [Name |-> "Ann", PhoneNumber |-> "111",
            Fields |-> [k \in {"Code"} |-> "x"]]
Bob == [Name |-> "Bob", PhoneNumber |-> "222",
        Fields |-> [k \in {"Code", "City"} |-> IF k = "Code" THEN "x" ELSE "y"]]

ContactUniverse == {Ann, AnnCode, Bob}

ContactLists ==
    UNION {[1..n -> ContactUniverse] : n \in 1..MaxContacts}

(* Templates: the contents of the template file *)
TplHello == "Hello"
TplName == "Hi {{.Name}}"
TplIndex == "{{index .Code 0}}"

Templates == {TplHello, TplName, TplIndex}

----------------------------------------------------------------------------
(* strings.ToLower and strings.TrimSpace on the cells the model uses; every  *)
(* other string of the model is lower-case and has no outer blanks, so both *)
(* functions return it unchanged.                                           *)

ToLower(s) ==
    CASE s = "Name" -> "name"
      [] s = "Name " -> "name "
      [] s = "phoneNumber" -> "phonenumber"
      [] s = "Hash " -> "hash "
      [] OTHER -> s

TrimSpace(s) ==
    CASE s = "hash " -> "hash"
      [] s = "111 " -> "111"
      [] s = "name " -> "name"
      [] s = "Name " -> "Name"
      [] s = "Ann " -> "Ann"
      [] s = "timestamp " -> "timestamp"
      [] s = "Hash " -> "Hash"
      [] OTHER -> s

----------------------------------------------------------------------------
(* MessageTemplate.Render: text/template executed over a map that holds     *)
(* Name and PhoneNumber and then every dynamic field (a field overwrites).  *)

RenderData(contact) ==
    [k \in {"Name", "PhoneNumber"} \cup DOMAIN contact.Fields |->
        IF k \in DOMAIN contact.Fields THEN contact.Fields[k]
        ELSE IF k = "Name" THEN contact.Name ELSE contact.PhoneNumber]

(* {{index s 0}} prints the first byte of s as a decimal number *)
FirstByte(s) ==
    CASE s = "x" -> "120"
      [] s = "y" -> "121"
      [] OTHER -> "0"

Render(tpl, contact) ==
    LET data == RenderData(contact)
    IN  CASE tpl = TplHello -> [err |-> FALSE, msg |-> "Hello"]
          [] tpl = TplName -> [err |-> FALSE, msg |-> "Hi " \o data["Name"]]
          [] tpl = TplIndex ->
                \* index of a missing map entry (untyped nil) is an exec error
                IF "Code" \in DOMAIN data /\ data["Code"] # ""
                THEN [err |-> FALSE, msg |-> FirstByte(data["Code"])]
                ELSE [err |-> TRUE, msg |-> ""]
          [] OTHER -> [err |-> FALSE, msg |-> tpl]

----------------------------------------------------------------------------
(* CompletedTracker *)

(* hex(sha256(data)): modelled as an injective tagging of the hashed text *)
Sha256Hex(data) == "sha256(" \o data \o ")"

(* The orders in which a range over a Go map may visit the keys of S *)
Orders(S) ==
    {o \in [1..Cardinality(S) -> S] : \A a, b \in DOMAIN o : a # b => o[a] # o[b]}

RECURSIVE AppendFields(_, _, _, _)
AppendFields(data, fields, order, k) ==
    IF k > Len(order) THEN data
    ELSE AppendFields(data \o "|" \o order[k] \o ":" \o fields[order[k]],
                      fields, order, k + 1)

(* generateHash; order is the order in which the range visits contact.Fields *)
generateHash(messageTemplate, contact, order) ==
    Sha256Hex(AppendFields(
        contact.PhoneNumber \o "|" \o contact.Name \o "|" \o messageTemplate,
        contact.Fields, order, 1))

MapPut(m, k, v) == [x \in DOMAIN m \cup {k} |-> IF x = k THEN v ELSE m[x]]

EmptyMap == [x \in {} |-> [Name |-> "", PhoneNumber |-> "", Hash |-> "", Timestamp |-> ""]]

(* Index (1-based, 0 for Go's -1) of the last header column whose normalised *)
(* name is in names                                                         *)
ColumnIdx(header, names) ==
    LET hits == {i \in 1..Len(header) : TrimSpace(ToLower(header[i])) \in names}
    IN  IF hits = {} THEN 0 ELSE CHOOSE i \in hits : \A j \in hits : j <= i

Cell(row, i) == IF i # 0 /\ Len(row) >= i THEN TrimSpace(row[i]) ELSE ""

RECURSIVE LoadRows(_, _, _, _)
LoadRows(records, k, ix, acc) ==
    IF k > Len(records) THEN acc
    ELSE LET row == records[k]
         IN  IF Len(row) = 0 \/ Len(row) < ix.hash \/ TrimSpace(row[ix.hash]) = ""
             THEN LoadRows(records, k + 1, ix, acc)
             ELSE LoadRows(records, k + 1, ix,
                    MapPut(acc, TrimSpace(row[ix.hash]),
                           [Name |-> Cell(row, ix.name),
                            PhoneNumber |-> Cell(row, ix.phone),
                            Hash |-> TrimSpace(row[ix.hash]),
                            Timestamp |-> Cell(row, ix.timestamp)]))

(* CompletedTracker.load. encoding/csv's ReadAll fails when a record has a   *)
(* number of fields different from the first record's.                      *)
load(file) ==
    LET records == file.records
    IN  IF ~file.exists THEN [err |-> "not exist", completed |-> EmptyMap]
        ELSE IF \E k \in 1..Len(records) : Len(records[k]) # Len(records[1])
        THEN [err |-> "failed to read completed CSV", completed |-> EmptyMap]
        ELSE IF Len(records) = 0 THEN [err |-> "nil", completed |-> EmptyMap]
        ELSE LET ix == [name |-> ColumnIdx(records[1], {"name"}),
                        phone |-> ColumnIdx(records[1], {"phone_number", "phone"}),
                        hash |-> ColumnIdx(records[1], {"hash"}),
                        timestamp |-> ColumnIdx(records[1], {"timestamp", "date"})]
             IN  IF ix.name = 0 \/ ix.phone = 0 \/ ix.hash = 0
                 THEN [err |-> "completed CSV must contain 'name', 'phone_number', and 'hash' columns",
                       completed |-> EmptyMap]
                 ELSE [err |-> "nil", completed |-> LoadRows(records, 2, ix, EmptyMap)]

(* The mutant that constructs a tracker whatever load returned *)
NewCompletedTrackerAnyway(file) ==
    [err |-> "nil", completed |-> load(file).completed]

(* NewCompletedTracker: a missing file is not an error *)
NewCompletedTracker(file) ==
    LET r == load(file)
    IN  IF r.err \in {"nil", "not exist"}
        THEN [err |-> "nil", completed |-> r.completed]
        ELSE [err |-> "failed to load completed contacts: " \o r.err,
              completed |-> EmptyMap]

(* time.Now().Format("2006-01-02 15:04:05") *)
Timestamp == "2025-10-27 22:00:30"

LedgerHeader == <<"name", "phone_number", "hash", "timestamp">>

(* The header line setup-windows.bat writes: cmd's echo keeps the blank      *)
(* before the redirection                                                   *)
SetupHeader == <<"name", "phone_number", "hash", "timestamp ">>

(* appendToFile; openOK is whether os.OpenFile succeeds *)
appendToFile(file, cc, openOK) ==
    IF ~openOK THEN [err |-> "failed to open completed CSV", file |-> file]
    ELSE [err |-> "nil",
          file |-> [exists |-> TRUE,
                    records |-> file.records
                                \o (IF file.exists THEN <<>> ELSE <<LedgerHeader>>)
                                \o <<(<<cc.Name, cc.PhoneNumber, cc.Hash, cc.Timestamp>>)>>]]

(* MarkCompleted: the in-memory map is updated before the file is appended *)
MarkCompleted(tracker, file, messageTemplate, contact, order, openOK) ==
    LET hash == generateHash(messageTemplate, contact, order)
        cc == [Name |-> contact.Name, PhoneNumber |-> contact.PhoneNumber,
               Hash |-> hash, Timestamp |-> Timestamp]
        w == appendToFile(file, cc, openOK)
    IN  [err |-> w.err, completed |-> MapPut(tracker, hash, cc), file |-> w.file]

(* IsCompleted *)
IsCompleted(tracker, messageTemplate, contact, order) ==
    generateHash(messageTemplate, contact, order) \in DOMAIN tracker

----------------------------------------------------------------------------
(* ParseCSV *)

(* strings.ToUpper(fieldName[:1]) + fieldName[1:] on the header cells used *)
Capitalize(s) ==
    CASE s = "name" -> "Name"
      [] s = "phone" -> "Phone"
      [] s = "phone_number" -> "Phone_number"
      [] s = "phoneNumber" -> "PhoneNumber"
      [] s = "code" -> "Code"
      [] OTHER -> s

(* Index (1-based, 0 for Go's -1) of the last header column whose trimmed,  *)
(* lower-cased name is in names                                             *)
ParseColumnIdx(header, names) ==
    LET hits == {i \in 1..Len(header) : ToLower(TrimSpace(header[i])) \in names}
    IN  IF hits = {} THEN 0 ELSE CHOOSE i \in hits : \A j \in hits : j <= i

(* The mutant that asks for the name column only *)
HasRequiredColumnsNameOnly(nameIdx, phoneIdx) == nameIdx # 0

(* if nameIdx == -1 || phoneIdx == -1 { return error } *)
HasRequiredColumns(nameIdx, phoneIdx) == nameIdx # 0 /\ phoneIdx # 0

(* contact.Fields of one row: the columns are visited left to right, so of  *)
(* two columns with the same capitalised name the right one stays           *)
RECURSIVE RowFields(_, _, _, _, _, _)
RowFields(row, header, nameIdx, phoneIdx, j, acc) ==
    IF j > Len(row) THEN acc
    ELSE IF j = nameIdx \/ j = phoneIdx
    THEN RowFields(row, header, nameIdx, phoneIdx, j + 1, acc)
    ELSE RowFields(row, header, nameIdx, phoneIdx, j + 1,
                   MapPut(acc, Capitalize(TrimSpace(header[j])), TrimSpace(row[j])))

RECURSIVE ParseRows(_, _, _, _, _)
ParseRows(records, k, nameIdx, phoneIdx, acc) ==
    IF k > Len(records) THEN [err |-> "nil", contacts |-> acc]
    ELSE LET row == records[k]
         IN  IF Len(row) = 0 \/ (Len(row) >= nameIdx /\ Cell(row, nameIdx) = "")
             THEN ParseRows(records, k + 1, nameIdx, phoneIdx, acc)
             ELSE IF Len(row) < nameIdx \/ Len(row) < phoneIdx
             THEN [err |-> "row " \o ToString(k) \o " has insufficient columns",
                   contacts |-> <<>>]
             ELSE IF Cell(row, phoneIdx) = ""
             THEN [err |-> "row " \o ToString(k) \o " has empty phone number",
                   contacts |-> <<>>]
             ELSE ParseRows(records, k + 1, nameIdx, phoneIdx,
                    Append(acc,
                           [Name |-> Cell(row, nameIdx),
                            PhoneNumber |-> Cell(row, phoneIdx),
                            Fields |-> RowFields(row, records[1], nameIdx,
                                                 phoneIdx, 1, NoFields)]))

(* ParseCSV over the file as encoding/csv reads it; ReadAll fails when a     *)
(* record has a number of fields different from the first record's          *)
ParseCSV(file) ==
    LET records == file.records
    IN  IF ~file.exists
        THEN [err |-> "failed to open CSV file", contacts |-> <<>>]
        ELSE IF \E k \in 1..Len(records) : Len(records[k]) # Len(records[1])
        THEN [err |-> "failed to read CSV file", contacts |-> <<>>]
        ELSE IF Len(records) = 0
        THEN [err |-> "CSV file is empty", contacts |-> <<>>]
        ELSE LET nameIdx == ParseColumnIdx(records[1], {"name"})
                 phoneIdx == ParseColumnIdx(records[1], {"phone_number", "phone"})
             IN  IF ~HasRequiredColumns(nameIdx, phoneIdx)
                 THEN [err |-> "CSV must contain 'name' and 'phone_number' columns",
                       contacts |-> <<>>]
                 ELSE ParseRows(records, 2, nameIdx, phoneIdx, <<>>)

----------------------------------------------------------------------------
(* WhatsAppClient.sendMessageAttempt                                       *)

MaxPolls == 2

(* What the browser answers during one attempt.                             *)
(*   image: the first step of sendImageWithCaption that fails, or "ok"      *)
(*   before: the bubble count read before sending, -1 when the read fails   *)
(*   polls: the counts read by the verification loop, -1 for a failed read; *)
(*          its length is the number of iterations the 20 s allow           *)
ImageSteps == {"stat", "abs", "read", "navigate", "chat", "clipboard exec",
               "clipboard copy", "input", "paste", "send button"}

PollSeqs == UNION {[1..n -> {-1, 1, 2}] : n \in 1..MaxPolls}

AttemptEnv ==
    [image : ImageSteps \cup {"ok"},
     navOK : BOOLEAN, before : {-1, 1}, inputFound : BOOLEAN,
     invalidText : BOOLEAN, clickOK : BOOLEAN, typed : BOOLEAN,
     advancedOK : BOOLEAN, finalText : BOOLEAN, enterOK : BOOLEAN,
     polls : PollSeqs]

ImageError(step) ==
    CASE step = "stat" -> "image file not found"
      [] step = "abs" -> "failed to get absolute image path"
      [] step = "read" -> "failed to read image file"
      [] step = "navigate" -> "failed to navigate to chat for image"
      [] step = "chat" -> "chat did not load - cannot send image"
      [] step = "clipboard exec" -> "failed to execute clipboard code"
      [] step = "clipboard copy" -> "failed to copy image to clipboard"
      [] step = "input" -> "could not find message input box"
      [] step = "paste" -> "failed to paste image"
      [] step = "send button" -> "could not find send button for image"
      [] OTHER -> "nil"

(* sendImageWithCaption: the send button is clicked and nil returned with   *)
(* no look at the message list                                              *)
sendImageWithCaption(env) ==
    IF env.image = "ok"
    THEN [err |-> "nil", actions |-> <<"image send button">>]
    ELSE [err |-> ImageError(env.image), actions |-> <<>>]

(* The verification loop: messageCountAfter keeps its value when a read     *)
(* fails; the loop leaves as soon as the count exceeds messageCountBefore   *)
RECURSIVE PollLoop(_, _, _, _, _)
PollLoop(polls, k, messageCountAfter, messageCountBefore, observed) ==
    IF k > Len(polls) THEN [messageSent |-> FALSE, observed |-> observed]
    ELSE LET read == polls[k]
             after == IF read = -1 THEN messageCountAfter ELSE read
             obs == IF read = -1 THEN observed ELSE Append(observed, read)
         IN  IF after > messageCountBefore
             THEN [messageSent |-> TRUE, observed |-> obs]
             ELSE PollLoop(polls, k + 1, after, messageCountBefore, obs)

AttemptResult(err, actions, method, before, observed) ==
    [err |-> err, actions |-> actions, imageErr |-> "none", method |-> method,
     countBefore |-> before, observed |-> observed]

(* The text flow, from the navigation to the verification loop. method is   *)
(* the input method that put the text in the box: keyboard simulation, or   *)
(* DOM manipulation when typing failed or left the box empty.               *)
textFlow(phoneNumber, env, actions) ==
    LET messageCountBefore == IF env.before = -1 THEN 0 ELSE env.before
        textPasted == env.typed
        method == IF textPasted THEN "keyboard" ELSE "dom"
    IN  IF ~env.navOK
        THEN AttemptResult("failed to navigate to chat", actions, "none", 0, <<>>)
        ELSE IF ~env.inputFound
        THEN IF env.invalidText
             THEN AttemptResult("invalid phone number: " \o phoneNumber, actions,
                                "none", messageCountBefore, <<>>)
             ELSE AttemptResult("could not find message input box (chat may not have loaded)",
                                actions, "none", messageCountBefore, <<>>)
        ELSE IF ~env.clickOK
        THEN AttemptResult("failed to click message input", actions, "none",
                           messageCountBefore, <<>>)
        ELSE IF ~textPasted /\ ~env.advancedOK
        THEN AttemptResult("failed to input message using all available methods",
                           actions, "none", messageCountBefore, <<>>)
        ELSE IF ~env.finalText
        THEN AttemptResult("text input failed - input box is empty after all methods",
                           actions, method, messageCountBefore, <<>>)
        ELSE IF ~env.enterOK
        THEN AttemptResult("failed to send message with Enter key", actions,
                           method, messageCountBefore, <<>>)
        ELSE LET p == PollLoop(env.polls, 1, 0, messageCountBefore, <<>>)
                 acts == Append(actions, "Enter key")
             IN  IF ~p.messageSent
                 THEN AttemptResult("message was not sent - no new message bubble appeared in chat",
                                    acts, method, messageCountBefore, p.observed)
                 ELSE AttemptResult("nil", acts, method, messageCountBefore, p.observed)

(* The mutant that goes on to the text flow after the image was sent *)
ImageSentIgnored(img) == FALSE

(* if err := c.sendImageWithCaption(...); err != nil { ... } else { return nil } *)
ImageSent(img) == img.err = "nil"

(* sendMessageAttempt; imagePath is config.Files.ImagePath # "". imageErr   *)
(* is what sendImageWithCaption returned ("none" when it was not called).   *)
sendMessageAttempt(imagePath, phoneNumber, env) ==
    IF imagePath
    THEN LET img == sendImageWithCaption(env)
         IN  IF ImageSent(img)
             THEN [AttemptResult("nil", img.actions, "none", 0, <<>>)
                     EXCEPT !.imageErr = "nil"]
             ELSE [textFlow(phoneNumber, env, img.actions)
                     EXCEPT !.imageErr = img.err]
    ELSE textFlow(phoneNumber, env, <<>>)

----------------------------------------------------------------------------
(* WhatsAppClient.SendMessage *)

Second == 1000

MaxRetriesBound == 2
MaxSeconds == 3

(* The uncapped mutant: the delay is multiplied and never capped *)
NextRetryDelayNoCap(retryDelay, cfg) == (retryDelay * cfg.BackoffTenths) \div 10

(* time.Duration(float64(retryDelay) * BackoffMultiplier), capped at maxDelay; *)
(* the multiplier is held in tenths                                          *)
NextRetryDelay(retryDelay, cfg) ==
    LET scaled == (retryDelay * cfg.BackoffTenths) \div 10
        maxDelay == cfg.MaxDelaySeconds * Second
    IN  IF scaled > maxDelay THEN maxDelay ELSE scaled

(* The off-by-one mutant: attempt < MaxRetries *)
LoopContinuesStrict(attempt, cfg) == attempt < cfg.MaxRetries

(* for attempt := 0; attempt <= MaxRetries; attempt++ *)
LoopContinues(attempt, cfg) == attempt <= cfg.MaxRetries

(* The retry loop. errs[k] is what the k-th call of sendMessageAttempt would *)
(* return; attempts and sleeps log the calls made and the delays slept.     *)
RECURSIVE SendLoop(_, _, _, _, _, _, _)
SendLoop(cfg, errs, attempt, retryDelay, lastErr, attempts, sleeps) ==
    IF ~LoopContinues(attempt, cfg)
    THEN [err |-> "failed after " \o ToString(cfg.MaxRetries) \o " retries: " \o lastErr,
          attempts |-> attempts, sleeps |-> sleeps]
    ELSE LET slept == IF attempt > 0 THEN Append(sleeps, retryDelay) ELSE sleeps
             delay == IF attempt > 0 THEN NextRetryDelay(retryDelay, cfg) ELSE retryDelay
             err == errs[attempt + 1]
         IN  IF err = "nil"
             THEN [err |-> "nil", attempts |-> Append(attempts, err), sleeps |-> slept]
             ELSE SendLoop(cfg, errs, attempt + 1, delay, err,
                           Append(attempts, err), slept)

SendMessage(cfg, errs) ==
    SendLoop(cfg, errs, 0, cfg.InitialDelaySeconds * Second, "nil", <<>>, <<>>)

----------------------------------------------------------------------------
(* The config-based program: main *)

(* completed.csv before the first run: absent, zero-length, the header the  *)
(* tracker writes, the one the setup script writes, headers without the     *)
(* hash, the phone or the name column, and ledgers with                     *)
(* the row an earlier run wrote for Ann under "Hello" or for Bob under the  *)
(* name template                                                            *)
InitialFiles ==
    {[exists |-> FALSE, records |-> <<>>],
     [exists |-> TRUE, records |-> <<>>],
     [exists |-> TRUE, records |-> <<LedgerHeader>>],
     [exists |-> TRUE, records |-> <<SetupHeader>>],
     [exists |-> TRUE, records |-> <<(<<"name", "phone_number">>)>>],
     [exists |-> TRUE, records |-> <<(<<"Name", "Hash ", "timestamp">>)>>],
     [exists |-> TRUE, records |-> <<(<<"phone", "hash">>),
                                     <<"111", generateHash(TplHello, Ann, <<>>)>> >>],
     [exists |-> TRUE,
      records |-> <<LedgerHeader,
                    <<"Ann", "111", generateHash(TplHello, Ann, <<>>), Timestamp>> >>],
     [exists |-> TRUE,
      records |-> <<LedgerHeader,
                    <<"Bob", "222", generateHash(TplName, Bob, <<"Code", "City">>),
                      Timestamp>> >>]}

(* config.Retry of the runs of main; rate limiting is disabled there *)
MainRetry ==
    [MaxRetries |-> 1, InitialDelaySeconds |-> 2, MaxDelaySeconds |-> 30,
     BackoffTenths |-> 20]

(* The browser answers main's attempts draw from: the chat opens and the    *)
(* message goes out, or the input box is missing with or without the        *)
(* invalid-number text                                                      *)
MainAttemptEnv ==
    {e \in [image : {"ok"}, navOK : {TRUE}, before : {1}, inputFound : BOOLEAN,
            invalidText : BOOLEAN, clickOK : {TRUE}, typed : {TRUE},
            advancedOK : {TRUE}, finalText : {TRUE}, enterOK : {TRUE},
            polls : {<<2>>}] : e.inputFound => ~e.invalidText}

NoTrace == [err |-> "none", attempts |-> <<>>, sleeps |-> <<>>]
NoAttempt ==
    [err |-> "none", actions |-> <<>>, imageErr |-> "none", method |-> "none",
     countBefore |-> 0, observed |-> <<>>]

StartOfRun(file, cs, tpl, dry) ==
    /\ csvFile = file
    /\ contacts = cs
    /\ template = tpl
    /\ dryRun = dry
    /\ pc = "tracker"
    /\ completed = EmptyMap
    /\ idx = 1
    /\ successCount = 0
    /\ failureCount = 0
    /\ skippedCount = 0
    /\ results = <<>>
    /\ processed = <<>>
    /\ browserUp = FALSE
    /\ sendCalls = <<>>
    /\ markCalls = 0
    /\ startFile = file
    /\ startCompleted = EmptyMap

IdleSend == retryCfg = MainRetry /\ sendTrace = NoTrace
NoCall ==
    [called |-> FALSE, imagePath |-> FALSE, phoneNumber |-> "",
     env |-> [image |-> "ok", navOK |-> TRUE, before |-> 1, inputFound |-> TRUE,
              invalidText |-> FALSE, clickOK |-> TRUE, typed |-> TRUE,
              advancedOK |-> TRUE, finalText |-> TRUE, enterOK |-> TRUE,
              polls |-> <<2>>]]

IdleAttempt == attemptRes = NoAttempt /\ attemptCall = NoCall
IdleRate ==
    /\ interval = 0
    /\ now = 0
    /\ tickerNext = 0
    /\ tickBuffered = FALSE
    /\ firstAttemptAt = <<>>
    /\ ratePc = "off"

NoReload == [err |-> "none", isCompleted |-> FALSE]
IdleLedger == markErr = "none" /\ reload = NoReload

NoSummary ==
    [total |-> 0, successful |-> 0, failed |-> 0, skipped |-> 0,
     failedContacts |-> <<>>, exitCode |-> 0]

NoParse == [err |-> "none", contacts |-> <<>>]
IdleParse ==
    /\ parseInput = [exists |-> FALSE, records |-> <<>>]
    /\ parsed = NoParse
    /\ templateData = <<>>

IdleInitialize ==
    /\ initPc = "off"
    /\ initErr = "none"
    /\ goPc = "none"
    /\ goResult = "none"
    /\ done = <<>>
    /\ sentCount = 0
    /\ clock = 0
    /\ qrTimeout = 0
    /\ panel = [appears |-> FALSE, at |-> 0]
    /\ browserGone = FALSE
    /\ progressTick = [next |-> 0, pending |-> FALSE]
    /\ progressLogs = 0

IdleFlag ==
    /\ fContacts = <<>>
    /\ fTemplate = ""
    /\ fFile = [exists |-> FALSE, records |-> <<>>]
    /\ fCompleted = {}
    /\ fPc = "off"
    /\ fIdx = 1
    /\ fCalls = <<>>
    /\ fProcessed = <<>>
    /\ fSlept = 0
    /\ fRun = 1
    /\ fStartNumbers = {}
    /\ fAppended = {}
    /\ fMinDelay = 0
    /\ fMaxDelay = 0

IdleHash ==
    /\ hTemplate = ""
    /\ hFile = [exists |-> FALSE, records |-> <<>>]
    /\ hTracker = EmptyMap
    /\ hRun = 1
    /\ hCalls = <<>>

IdleLast == IdleHash

IdleMore == IdleParse /\ IdleInitialize /\ IdleFlag /\ IdleLast

IdleOther == IdleLedger /\ summary = NoSummary /\ IdleMore

IdleMain ==
    /\ StartOfRun([exists |-> FALSE, records |-> <<>>], <<Ann>>, TplHello, FALSE)
    /\ run = 1
    /\ delivered = {}

Init ==
    /\ \E file \in InitialFiles, cs \in ContactLists, tpl \in Templates,
          dry \in BOOLEAN : StartOfRun(file, cs, tpl, dry)
    /\ run = 1
    /\ delivered = {}
    /\ IdleSend
    /\ IdleAttempt
    /\ IdleRate
    /\ IdleOther

(* if !*dryRun { Initialize() } *)
InitializesBrowser(dry) == ~dry

(* The dry-run mutant: the flag is not looked at before sending *)
SendsForRealAlways(dry) == TRUE

(* if *dryRun { ...; continue }: only a real run goes on to SendMessage *)
SendsForReal(dry) == ~dry

(* NewCompletedTracker, and exit(1) when it fails *)
LoadTracker ==
    /\ pc = "tracker"
    /\ LET t == NewCompletedTracker(csvFile)
       IN  IF t.err # "nil"
           THEN pc' = "exit" /\ UNCHANGED <<completed, startCompleted>>
           ELSE /\ pc' = "browser"
                /\ completed' = t.completed
                /\ startCompleted' = t.completed
    /\ UNCHANGED <<csvFile, contacts, template, dryRun, idx, successCount,
                   failureCount, skippedCount, results, processed, browserUp,
                   sendCalls, markCalls, run, delivered, startFile>>
    /\ UNCHANGED <<sendVars, attemptVars, rateVars, otherVars>>

(* whatsappClient.Initialize(), skipped for a dry run; exit(1) when it fails *)
InitBrowser ==
    /\ pc = "browser"
    /\ IF ~InitializesBrowser(dryRun)
       THEN pc' = "loop" /\ UNCHANGED browserUp
       ELSE /\ browserUp' = TRUE
            /\ \E ok \in BOOLEAN : pc' = IF ok THEN "loop" ELSE "exit"
    /\ UNCHANGED <<csvFile, contacts, template, dryRun, completed, idx,
                   successCount, failureCount, skippedCount, results, processed,
                   sendCalls, markCalls, run, delivered, startFile, startCompleted>>
    /\ UNCHANGED <<sendVars, attemptVars, rateVars, otherVars>>

MessageResult(contact, success, err) ==
    [Contact |-> contact, Success |-> success, Error |-> err]

(* What the loop does after one iteration ended in `how` *)
LoopStep(contact, how) ==
    /\ idx' = idx + 1
    /\ processed' = Append(processed, [contact |-> contact, how |-> how])

(* The abort mutant: the first failed send ends the loop *)
AbortAfterFailure(contact) ==
    /\ idx' = Len(contacts) + 1
    /\ processed' = Append(processed, [contact |-> contact, how |-> "send failed"])

(* A failed send is logged and counted; the range goes on with the next contact *)
AfterFailure(contact) == LoopStep(contact, "send failed")

(* One iteration of the range loop over contacts *)
ProcessContact ==
    /\ pc = "loop"
    /\ idx <= Len(contacts)
    /\ LET contact == contacts[idx]
       IN  \E order \in Orders(DOMAIN contact.Fields) :
           IF IsCompleted(completed, template, contact, order)
           THEN /\ skippedCount' = skippedCount + 1
                /\ LoopStep(contact, "skipped")
                /\ UNCHANGED <<csvFile, completed, successCount, failureCount,
                               results, sendCalls, markCalls, delivered>>
           ELSE LET r == Render(template, contact)
                IN  IF r.err
                    THEN /\ results' = Append(results,
                                MessageResult(contact, FALSE, "failed to render template"))
                         /\ failureCount' = failureCount + 1
                         /\ LoopStep(contact, "render failed")
                         /\ UNCHANGED <<csvFile, completed, successCount,
                                        skippedCount, sendCalls, markCalls, delivered>>
                    ELSE IF ~SendsForReal(dryRun)
                    THEN /\ results' = Append(results, MessageResult(contact, TRUE, "nil"))
                         /\ successCount' = successCount + 1
                         /\ LoopStep(contact, "dry run")
                         /\ UNCHANGED <<csvFile, completed, failureCount,
                                        skippedCount, sendCalls, markCalls, delivered>>
                    ELSE \E envs \in [1..(retryCfg.MaxRetries + 1) -> MainAttemptEnv] :
                         LET errs == [k \in DOMAIN envs |->
                                        sendMessageAttempt(FALSE, contact.PhoneNumber,
                                                           envs[k]).err]
                             s == SendMessage(retryCfg, errs)
                             call == [contact |-> contact, message |-> r.msg,
                                      err |-> s.err,
                                      again |-> <<contact.PhoneNumber, r.msg>> \in delivered]
                         IN  /\ sendCalls' = Append(sendCalls, call)
                             /\ IF s.err # "nil"
                                THEN /\ results' = Append(results,
                                            MessageResult(contact, FALSE, s.err))
                                     /\ failureCount' = failureCount + 1
                                     /\ AfterFailure(contact)
                                     /\ UNCHANGED <<csvFile, completed, successCount,
                                                    skippedCount, markCalls, delivered>>
                                ELSE \E order2 \in Orders(DOMAIN contact.Fields),
                                        openOK \in BOOLEAN :
                                     LET m == MarkCompleted(completed, csvFile, template,
                                                            contact, order2, openOK)
                                     IN  /\ completed' = m.completed
                                         /\ csvFile' = m.file
                                         /\ markCalls' = markCalls + 1
                                         /\ delivered' =
                                              IF m.err = "nil"
                                              THEN delivered \cup {<<contact.PhoneNumber, r.msg>>}
                                              ELSE delivered
                                         /\ results' = Append(results,
                                                MessageResult(contact, TRUE, "nil"))
                                         /\ successCount' = successCount + 1
                                         /\ LoopStep(contact, "sent")
                                         /\ UNCHANGED <<failureCount, skippedCount>>
    /\ UNCHANGED <<contacts, template, dryRun, pc, browserUp, run, startFile,
                   startCompleted>>
    /\ UNCHANGED <<sendVars, attemptVars, rateVars, otherVars>>

(* The mutant that lists every result under "Failed contacts" *)
PrintsAsFailedAlways(result) == TRUE

(* if !result.Success { Log(...) } *)
PrintsAsFailed(result) == ~result.Success

FailedLine(result) ==
    [Name |-> result.Contact.Name, PhoneNumber |-> result.Contact.PhoneNumber,
     Error |-> result.Error]

RECURSIVE FailedLines(_, _)
FailedLines(rs, k) ==
    IF k > Len(rs) THEN <<>>
    ELSE (IF PrintsAsFailed(rs[k]) THEN <<FailedLine(rs[k])>> ELSE <<>>)
         \o FailedLines(rs, k + 1)

(* The range is exhausted: the summary is printed and main returns, with    *)
(* exit code 1 when a contact failed                                        *)
FinishRun ==
    /\ pc = "loop"
    /\ idx > Len(contacts)
    /\ pc' = "done"
    /\ summary' = [total |-> Len(contacts), successful |-> successCount,
                   failed |-> failureCount, skipped |-> skippedCount,
                   failedContacts |->
                       IF failureCount > 0 THEN FailedLines(results, 1) ELSE <<>>,
                   exitCode |-> IF failureCount > 0 THEN 1 ELSE 0]
    /\ UNCHANGED <<ledgerVars, moreVars>>
    /\ UNCHANGED <<csvFile, contacts, template, dryRun, completed, idx,
                   successCount, failureCount, skippedCount, results, processed,
                   browserUp, sendCalls, markCalls, run, delivered, startFile,
                   startCompleted>>
    /\ UNCHANGED <<sendVars, attemptVars, rateVars>>

(* The program is started again: completed.csv is what the last run left;   *)
(* the contact list, the template and the flag are whatever they are now    *)
NextRun ==
    /\ pc \in {"done", "exit"}
    /\ run < MaxRuns
    /\ run' = run + 1
    /\ \E cs \in ContactLists, tpl \in Templates, dry \in BOOLEAN :
          /\ contacts' = cs
          /\ template' = tpl
          /\ dryRun' = dry
    /\ pc' = "tracker"
    /\ completed' = EmptyMap
    /\ idx' = 1
    /\ successCount' = 0
    /\ failureCount' = 0
    /\ skippedCount' = 0
    /\ results' = <<>>
    /\ processed' = <<>>
    /\ browserUp' = FALSE
    /\ sendCalls' = <<>>
    /\ markCalls' = 0
    /\ startFile' = csvFile
    /\ startCompleted' = EmptyMap
    /\ UNCHANGED <<csvFile, delivered>>
    /\ UNCHANGED <<sendVars, attemptVars, rateVars, ledgerVars, moreVars>>
    /\ summary' = NoSummary

(* One run of the program *)
Next == LoadTracker \/ InitBrowser \/ ProcessContact \/ FinishRun

Spec == Init /\ [][Next]_vars

(* A sequence of runs over the same completed.csv *)
NextRuns == Next \/ NextRun

SpecRuns == Init /\ [][NextRuns]_vars

----------------------------------------------------------------------------
(* Properties of the config-based program *)

Count(seq, P(_)) == Cardinality({k \in DOMAIN seq : P(seq[k])})

(* C1: once a phone number was sent a message and the send was recorded in  *)
(* completed.csv, no later SendMessage call, in this or a later run, is for *)
(* the same phone number with the same rendered message.                    *)
C1_NoResendOfRecorded ==
    \A k \in DOMAIN sendCalls : ~sendCalls[k].again

(* C2: a contact whose name and phone number are in a row that the tracker  *)
(* loaded from completed.csv at the start of the run is never passed to     *)
(* SendMessage in that run.                                                 *)
C2_LedgerRowNeverSent ==
    \A k \in DOMAIN sendCalls :
        ~\E h \in DOMAIN startCompleted :
            /\ startCompleted[h].Name = sendCalls[k].contact.Name
            /\ startCompleted[h].PhoneNumber = sendCalls[k].contact.PhoneNumber

(* C3: a dry run never initializes the browser, never calls SendMessage or  *)
(* MarkCompleted, leaves the in-memory ledger and completed.csv as they     *)
(* were at the start, and counts as successful exactly the contacts that    *)
(* were not skipped and whose template rendered.                            *)
C3_DryRunFrame ==
    dryRun =>
        /\ ~browserUp
        /\ sendCalls = <<>>
        /\ markCalls = 0
        /\ completed = startCompleted
        /\ csvFile = startFile
        /\ \A k \in DOMAIN processed :
              LET p == processed[k]
              IN  (p.how # "skipped" /\ ~Render(template, p.contact).err)
                      <=> p.how = "dry run"
        /\ successCount = Count(processed, LAMBDA p : p.how = "dry run")
        /\ successCount = Count(results, LAMBDA r : r.Success)

C3_Witness ==
    /\ dryRun
    /\ pc = "done"
    /\ successCount >= 1
    /\ skippedCount >= 1
    /\ startCompleted # EmptyMap

HashesOf(contact) ==
    {generateHash(template, contact, o) : o \in Orders(DOMAIN contact.Fields)}

(* C8: a failed send is counted as failed and recorded in the results, adds *)
(* nothing to the ledger (every entry and every row added in the run is of  *)
(* a contact whose send succeeded), and does not end the run: the loop      *)
(* handles the contacts one by one in CSV order and, once it has started,   *)
(* the run ends only after the last contact.                                *)
C8_FailureDoesNotStopRun ==
    /\ Len(processed) = idx - 1
    /\ \A k \in DOMAIN processed : processed[k].contact = contacts[k]
    /\ pc = "done" => Len(processed) = Len(contacts)
    /\ pc = "exit" => processed = <<>>
    /\ \A k \in DOMAIN sendCalls :
          sendCalls[k].err # "nil" =>
              \E j \in DOMAIN results :
                  /\ results[j].Contact = sendCalls[k].contact
                  /\ ~results[j].Success
                  /\ results[j].Error = sendCalls[k].err
    /\ failureCount = Count(processed, LAMBDA p : p.how \in {"send failed", "render failed"})
    /\ Count(sendCalls, LAMBDA c : c.err # "nil")
          = Count(processed, LAMBDA p : p.how = "send failed")
    /\ markCalls = Count(processed, LAMBDA p : p.how = "sent")
    /\ \A h \in DOMAIN completed \ DOMAIN startCompleted :
          \E k \in DOMAIN processed :
              processed[k].how = "sent" /\ h \in HashesOf(processed[k].contact)
    /\ Len(csvFile.records) <= Len(startFile.records) + markCalls
                                + (IF startFile.exists THEN 0 ELSE 1)

C8_Witness ==
    /\ pc = "done"
    /\ Len(processed) = 2
    /\ processed[1].how = "send failed"
    /\ processed[2].how = "sent"
    /\ failureCount = 1

(* A header has none of the columns in names *)
Lacks(header, names) ==
    \A i \in DOMAIN header : TrimSpace(ToLower(header[i])) \notin names

LacksRequiredColumn(file) ==
    /\ file.exists
    /\ Len(file.records) >= 1
    /\ \/ Lacks(file.records[1], {"name"})
       \/ Lacks(file.records[1], {"phone_number", "phone"})
       \/ Lacks(file.records[1], {"hash"})

(* C12: when the header of completed.csv lacks the name, the phone or the   *)
(* hash column, main exits at tracker initialization, before the browser is *)
(* initialized and before any send; an absent file and the header-only file *)
(* of the setup script give an empty ledger and no error.                   *)
C12_BadHeaderStopsRun ==
    /\ LacksRequiredColumn(startFile) =>
          /\ pc \in {"tracker", "exit"}
          /\ ~browserUp
          /\ sendCalls = <<>>
          /\ processed = <<>>
    /\ (pc # "tracker" /\ (~startFile.exists \/ startFile.records = <<SetupHeader>>)) =>
          /\ startCompleted = EmptyMap
          /\ pc = "exit" => browserUp

C12_Witness ==
    /\ pc = "exit"
    /\ ~browserUp
    /\ startFile.records = <<(<<"name", "phone_number">>)>>

Failed(p) == p.how \in {"send failed", "render failed"}

(* C13: at the end of a run successful + failed + skipped is the number of  *)
(* contacts loaded, every contact is counted in exactly one of the three,   *)
(* and the failed contacts printed are exactly the contacts whose render or *)
(* send failed, in CSV order.                                               *)
C13_SummaryAddsUp ==
    pc = "done" =>
        /\ summary.total = Len(contacts)
        /\ summary.successful + summary.failed + summary.skipped = Len(contacts)
        /\ Len(processed) = Len(contacts)
        /\ summary.successful = Count(processed, LAMBDA p : p.how \in {"sent", "dry run"})
        /\ summary.failed = Count(processed, Failed)
        /\ summary.skipped = Count(processed, LAMBDA p : p.how = "skipped")
        /\ LET failedOnes == SelectSeq(processed, Failed)
           IN  /\ Len(summary.failedContacts) = Len(failedOnes)
               /\ \A k \in DOMAIN failedOnes :
                     /\ summary.failedContacts[k].Name = failedOnes[k].contact.Name
                     /\ summary.failedContacts[k].PhoneNumber
                            = failedOnes[k].contact.PhoneNumber

C13_Witness ==
    /\ pc = "done"
    /\ summary.successful = 1
    /\ summary.failed = 1
    /\ Len(summary.failedContacts) = 1
    /\ processed[1].how = "sent"
    /\ processed[2].how = "render failed"

----------------------------------------------------------------------------
(* SendMessage on its own, over the retry configurations *)

BackoffTenthsSet == {0, 5, 10, 15, 20, 30}

RetryConfigs ==
    [MaxRetries : 0..MaxRetriesBound,
     InitialDelaySeconds : 0..MaxSeconds,
     MaxDelaySeconds : 1..MaxSeconds,
     BackoffTenths : BackoffTenthsSet]

(* The browser answers the attempts of a lone SendMessage draw from: sent   *)
(* and seen, sent but no new bubble seen, input box missing with or without *)
(* the invalid-number text                                                  *)
SendAttemptEnv ==
    {e \in [image : {"ok"}, navOK : {TRUE}, before : {1}, inputFound : BOOLEAN,
            invalidText : BOOLEAN, clickOK : {TRUE}, typed : {TRUE},
            advancedOK : {TRUE}, finalText : {TRUE}, enterOK : {TRUE},
            polls : {<<2>>, <<1>>}] :
        /\ e.inputFound => ~e.invalidText
        /\ ~e.inputFound => e.polls = <<2>>}

InitSend ==
    /\ StartOfRun([exists |-> FALSE, records |-> <<>>], <<Ann>>, TplHello, FALSE)
    /\ run = 1
    /\ delivered = {}
    /\ retryCfg \in RetryConfigs
    /\ sendTrace = NoTrace
    /\ IdleAttempt
    /\ IdleRate
    /\ IdleOther

(* One call of SendMessage with the rate limiter off *)
CallSendMessage ==
    /\ sendTrace = NoTrace
    /\ \E envs \in [1..(retryCfg.MaxRetries + 1) -> SendAttemptEnv] :
          LET errs == [k \in DOMAIN envs |->
                          sendMessageAttempt(FALSE, "111", envs[k]).err]
          IN  sendTrace' = SendMessage(retryCfg, errs)
    /\ UNCHANGED <<retryCfg, mainVars, attemptVars, rateVars, otherVars>>

SpecSend == InitSend /\ [][CallSendMessage]_vars

InvalidNumber == "invalid phone number: 111"

(* C4: a SendMessage call makes at least one and at most max_retries + 1    *)
(* attempts, none after a successful one; it returns nil exactly when an    *)
(* attempt succeeded and an error only after max_retries + 1 failed ones.   *)
C4_AttemptsBounded ==
    sendTrace # NoTrace =>
        LET a == sendTrace.attempts
        IN  /\ Len(a) >= 1
            /\ Len(a) <= retryCfg.MaxRetries + 1
            /\ \A k \in 1..(Len(a) - 1) : a[k] # "nil"
            /\ sendTrace.err = "nil" <=> a[Len(a)] = "nil"
            /\ sendTrace.err # "nil" =>
                  /\ Len(a) = retryCfg.MaxRetries + 1
                  /\ \A k \in DOMAIN a : a[k] # "nil"

C4_Witness ==
    /\ retryCfg.MaxRetries = 2
    /\ sendTrace.err = "nil"
    /\ Len(sendTrace.attempts) = 3

(* C5: with an integer multiplier, there is one sleep before each retry;    *)
(* the first is initial_delay_seconds and each later one is the previous    *)
(* one times the multiplier, capped at max_delay_seconds.                   *)
C5_BackoffSchedule ==
    (sendTrace # NoTrace /\ retryCfg.BackoffTenths % 10 = 0) =>
        LET s == sendTrace.sleeps
            m == retryCfg.BackoffTenths \div 10
        IN  /\ Len(s) = Len(sendTrace.attempts) - 1
            /\ Len(s) >= 1 => s[1] = retryCfg.InitialDelaySeconds * Second
            /\ \A k \in 2..Len(s) :
                  s[k] = Min(s[k - 1] * m, retryCfg.MaxDelaySeconds * Second)

C5_Witness ==
    /\ retryCfg.BackoffTenths = 20
    /\ Len(sendTrace.sleeps) = 2
    /\ sendTrace.sleeps[1] = 2 * Second
    /\ sendTrace.sleeps[2] = 3 * Second
    /\ retryCfg.MaxDelaySeconds = 3

(* C6: no retry sleeps longer than max_delay_seconds. *)
C6_SleepCapped ==
    \A k \in DOMAIN sendTrace.sleeps :
        sendTrace.sleeps[k] <= retryCfg.MaxDelaySeconds * Second

(* C9: an attempt that fails with the invalid phone number error is the     *)
(* last attempt of its SendMessage call.                                    *)
C9_InvalidNotRetried ==
    \A k \in 1..(Len(sendTrace.attempts) - 1) :
        sendTrace.attempts[k] # InvalidNumber

----------------------------------------------------------------------------
(* sendMessageAttempt on its own, over the answers of the browser *)

InitAttempt ==
    /\ StartOfRun([exists |-> FALSE, records |-> <<>>], <<Ann>>, TplHello, FALSE)
    /\ run = 1
    /\ delivered = {}
    /\ IdleSend
    /\ IdleAttempt
    /\ IdleRate
    /\ IdleOther

(* One call of sendMessageAttempt, with or without a configured image *)
CallAttempt ==
    /\ attemptRes = NoAttempt
    /\ \E imagePath \in BOOLEAN, env \in AttemptEnv :
          /\ attemptRes' = sendMessageAttempt(imagePath, "111", env)
          /\ attemptCall' = [called |-> TRUE, imagePath |-> imagePath,
                             phoneNumber |-> "111", env |-> env]
    /\ UNCHANGED <<mainVars, sendVars, rateVars, otherVars>>

SpecAttempt == InitAttempt /\ [][CallAttempt]_vars

(* C10: an attempt that returns nil has read, in its verification loop, a   *)
(* bubble count greater than the count recorded before the send action.     *)
C10_SuccessWasObserved ==
    attemptRes.err = "nil" =>
        \E k \in DOMAIN attemptRes.observed :
            attemptRes.observed[k] > attemptRes.countBefore

(* C22: with an image configured the attempt first tries the image send;    *)
(* when that succeeds the attempt returns nil with the image send button    *)
(* as its only action and the text flow is not run; when it fails at any    *)
(* step the attempt does what the text-only attempt does in the same        *)
(* browser; so an attempt that returns nil has triggered exactly one send   *)
(* action, the image send button or the Enter key.                          *)
C22_ImageThenText ==
    attemptCall.called =>
        /\ attemptCall.imagePath <=> attemptRes.imageErr # "none"
        /\ attemptRes.imageErr = "nil" =>
               /\ attemptRes.err = "nil"
               /\ attemptRes.actions = <<"image send button">>
               /\ attemptRes.method = "none"
               /\ attemptRes.observed = <<>>
        /\ attemptRes.imageErr \notin {"none", "nil"} =>
               /\ attemptRes.imageErr = ImageError(attemptCall.env.image)
               /\ [attemptRes EXCEPT !.imageErr = "none"]
                      = sendMessageAttempt(FALSE, attemptCall.phoneNumber,
                                           attemptCall.env)
        /\ attemptRes.err = "nil" =>
               /\ Len(attemptRes.actions) = 1
               /\ attemptRes.actions[1] \in {"image send button", "Enter key"}

(* An image send that failed at its last step, followed by a text send *)
C22_Witness ==
    /\ attemptCall.called
    /\ attemptCall.imagePath
    /\ attemptRes.imageErr = "could not find send button for image"
    /\ attemptRes.err = "nil"
    /\ attemptRes.actions = <<"Enter key">>

----------------------------------------------------------------------------
(* The rate limiter: NewWhatsAppClient starts time.Tick(interval); every    *)
(* SendMessage first receives from the ticker's channel. The channel holds  *)
(* at most one tick: a tick that finds it full is dropped, and the ticker   *)
(* keeps its period.                                                        *)

MaxRate == 2
MaxSends == 3

(* interval := time.Second / time.Duration(MessagesPerSecond) *)
TickInterval(messagesPerSecond) == Second \div messagesPerSecond

(* The ticker between two instants: [next tick, channel full] at time t *)
AfterTicks(t, next, buffered, period) ==
    IF next <= t
    THEN [next |-> next + period * ((t - next) \div period + 1), buffered |-> TRUE]
    ELSE [next |-> next, buffered |-> buffered]

(* Time main spends outside SendMessage: Initialize (which sleeps 3 s once  *)
(* logged in) before the first call, the loop's own work between calls      *)
WorkDurations == {50, 3250}

(* Time one attempt takes: a successful text send sleeps more than 11 s in  *)
(* all; a failing one may fail at once (the browser is gone) or late        *)
SuccessDuration == {11350}
FailureDurations == {100, 4000}

RateRetryConfigs ==
    [MaxRetries : 0..1, InitialDelaySeconds : {1}, MaxDelaySeconds : {1},
     BackoffTenths : {20}]

RateAttemptEnv ==
    [image : {"ok"}, navOK : BOOLEAN, before : {1}, inputFound : {TRUE},
     invalidText : {FALSE}, clickOK : {TRUE}, typed : {TRUE},
     advancedOK : {TRUE}, finalText : {TRUE}, enterOK : {TRUE},
     polls : {<<2>>}]

RECURSIVE Sum(_, _)
Sum(seq, k) == IF k > Len(seq) THEN 0 ELSE seq[k] + Sum(seq, k + 1)

InitRate ==
    /\ StartOfRun([exists |-> FALSE, records |-> <<>>], <<Ann>>, TplHello, FALSE)
    /\ run = 1
    /\ delivered = {}
    /\ retryCfg \in RateRetryConfigs
    /\ sendTrace = NoTrace
    /\ IdleAttempt
    /\ \E r \in 1..MaxRate :
          /\ interval = TickInterval(r)
          /\ tickerNext = TickInterval(r)
    /\ now = 0
    /\ tickBuffered = FALSE
    /\ firstAttemptAt = <<>>
    /\ ratePc = "work"
    /\ IdleOther

(* main between two SendMessage calls *)
MainWork ==
    /\ ratePc = "work"
    /\ Len(firstAttemptAt) < MaxSends
    /\ \E d \in WorkDurations :
          LET t == AfterTicks(now + d, tickerNext, tickBuffered, interval)
          IN  /\ now' = now + d
              /\ tickerNext' = t.next
              /\ tickBuffered' = t.buffered
    /\ ratePc' = "call"
    /\ UNCHANGED <<interval, firstAttemptAt, mainVars, sendVars, attemptVars, otherVars>>

(* SendMessage with the rate limiter on: the receive returns at once when a *)
(* tick is buffered and at the next tick otherwise; then the attempts and   *)
(* the sleeps between them take their time                                  *)
PacedSendMessage ==
    /\ ratePc = "call"
    /\ LET start == IF tickBuffered THEN now ELSE tickerNext
           next == IF tickBuffered THEN tickerNext ELSE tickerNext + interval
       IN  \E envs \in [1..(retryCfg.MaxRetries + 1) -> RateAttemptEnv],
              failFor \in FailureDurations, okFor \in SuccessDuration :
              LET errs == [k \in DOMAIN envs |->
                              sendMessageAttempt(FALSE, "111", envs[k]).err]
                  trace == SendMessage(retryCfg, errs)
                  spent == [k \in DOMAIN trace.attempts |->
                               IF trace.attempts[k] = "nil" THEN okFor ELSE failFor]
                  end == start + Sum(spent, 1) + Sum(trace.sleeps, 1)
                  t == AfterTicks(end, next, FALSE, interval)
              IN  /\ firstAttemptAt' = Append(firstAttemptAt, start)
                  /\ sendTrace' = trace
                  /\ now' = end
                  /\ tickerNext' = t.next
                  /\ tickBuffered' = t.buffered
    /\ ratePc' = "work"
    /\ UNCHANGED <<interval, retryCfg, mainVars, attemptVars, otherVars>>

NextRate == MainWork \/ PacedSendMessage

SpecRate == InitRate /\ [][NextRate]_vars

(* C7: the first attempts of any two consecutive SendMessage calls begin at *)
(* least 1/messages_per_second apart.                                       *)
C7_PacedAtRate ==
    \A k \in 2..Len(firstAttemptAt) :
        firstAttemptAt[k] - firstAttemptAt[k - 1] >= interval

----------------------------------------------------------------------------
(* The ledger round trip: a tracker is constructed over completed.csv, it   *)
(* marks one contact completed, and a new tracker is constructed over the   *)
(* file it left.                                                            *)

(* Headers in another column order, with and without the timestamp column *)
HashFirstHeader == <<"hash", "name", "phone_number", "timestamp">>
ShortHeader == <<"phone", "name", "hash">>

LedgerFiles ==
    InitialFiles \cup
    {[exists |-> TRUE, records |-> <<HashFirstHeader>>],
     [exists |-> TRUE,
      records |-> <<HashFirstHeader,
                    <<generateHash(TplHello, Ann, <<>>), "Ann", "111", Timestamp>> >>],
     [exists |-> TRUE, records |-> <<ShortHeader>>]}

(* The states of completed.csv that NewCompletedTracker accepts *)
AcceptedFiles == {f \in LedgerFiles : NewCompletedTracker(f).err = "nil"}

InitLedger ==
    /\ \E file \in AcceptedFiles, c \in ContactUniverse, tpl \in Templates :
          StartOfRun(file, <<c>>, tpl, FALSE)
    /\ run = 1
    /\ delivered = {}
    /\ IdleSend
    /\ IdleAttempt
    /\ IdleRate
    /\ IdleOther

(* NewCompletedTracker over the file as it is *)
ConstructTracker ==
    /\ pc = "tracker"
    /\ LET t == NewCompletedTracker(csvFile)
       IN  /\ completed' = t.completed
           /\ startCompleted' = t.completed
           /\ pc' = IF t.err = "nil" THEN "mark" ELSE "exit"
    /\ UNCHANGED <<csvFile, contacts, template, dryRun, idx, successCount,
                   failureCount, skippedCount, results, processed, browserUp,
                   sendCalls, markCalls, run, delivered, startFile>>
    /\ UNCHANGED <<sendVars, attemptVars, rateVars, otherVars>>

(* tracker.MarkCompleted(contact) *)
MarkContact ==
    /\ pc = "mark"
    /\ \E order \in Orders(DOMAIN contacts[1].Fields), openOK \in BOOLEAN :
          LET m == MarkCompleted(completed, csvFile, template, contacts[1],
                                 order, openOK)
          IN  /\ completed' = m.completed
              /\ csvFile' = m.file
              /\ markErr' = m.err
    /\ markCalls' = markCalls + 1
    /\ pc' = "reload"
    /\ UNCHANGED <<contacts, template, dryRun, idx, successCount, failureCount,
                   skippedCount, results, processed, browserUp, sendCalls, run,
                   delivered, startFile, startCompleted>>
    /\ UNCHANGED <<reload, summary, moreVars, sendVars, attemptVars, rateVars>>

(* A new tracker over the same file and template, asked IsCompleted(contact) *)
ReloadTracker ==
    /\ pc = "reload"
    /\ LET t == NewCompletedTracker(csvFile)
       IN  \E order \in Orders(DOMAIN contacts[1].Fields) :
              reload' = [err |-> t.err,
                         isCompleted |->
                            /\ t.err = "nil"
                            /\ IsCompleted(t.completed, template, contacts[1], order)]
    /\ pc' = "done"
    /\ UNCHANGED <<csvFile, contacts, template, dryRun, completed, idx,
                   successCount, failureCount, skippedCount, results, processed,
                   browserUp, sendCalls, markCalls, run, delivered, startFile,
                   startCompleted>>
    /\ UNCHANGED <<markErr, summary, moreVars, sendVars, attemptVars, rateVars>>

NextLedger == ConstructTracker \/ MarkContact \/ ReloadTracker

SpecLedger == InitLedger /\ [][NextLedger]_vars

(* C11: after MarkCompleted(c) returned nil over a file the tracker         *)
(* accepted, a new tracker over the same file with the same template loads  *)
(* without error and IsCompleted(c) is true.                                *)
C11_LedgerRoundTrip ==
    (pc = "done" /\ markErr = "nil") =>
        /\ reload.err = "nil"
        /\ reload.isCompleted

----------------------------------------------------------------------------
(* ParseCSV on its own, over contacts files, and Render's template data     *)

MaxColumns == 3
MaxRows == 1

HeaderCells == {"name", "Name ", "phone", "phoneNumber", "code"}

(* What a filled cell of column j holds *)
ColumnValue == <<"Ann ", "111", "x", "y", "z">>

Headers == UNION {[1..n -> HeaderCells] : n \in 1..MaxColumns}

(* The rows of n cells: each cell is filled or empty *)
RowsFor(n) ==
    {[j \in 1..n |-> IF j \in F THEN ColumnValue[j] ELSE ""] : F \in SUBSET (1..n)}

RowLists(n) == UNION {[1..m -> RowsFor(n)] : m \in 0..MaxRows}

(* The contacts files: absent, zero-length, a header with rows of as many   *)
(* cells, and a header with one row that has a cell more                    *)
ParseInputs ==
    {[exists |-> FALSE, records |-> <<>>], [exists |-> TRUE, records |-> <<>>]}
    \cup UNION {{[exists |-> TRUE, records |-> <<h>> \o rows] :
                    rows \in RowLists(Len(h))} : h \in Headers}
    \cup {[exists |-> TRUE,
           records |-> <<h, [j \in 1..(Len(h) + 1) |-> ColumnValue[j]]>>] :
             h \in Headers}

InitParse ==
    /\ IdleMain
    /\ IdleSend
    /\ IdleAttempt
    /\ IdleRate
    /\ IdleLedger
    /\ summary = NoSummary
    /\ IdleInitialize
    /\ IdleFlag
    /\ IdleLast
    /\ parseInput \in ParseInputs
    /\ parsed = NoParse
    /\ templateData = <<>>

(* contacts, err := ParseCSV(config.Files.CSVPath) *)
CallParseCSV ==
    /\ parsed = NoParse
    /\ parsed' = ParseCSV(parseInput)
    /\ UNCHANGED <<parseInput, templateData, mainVars, sendVars, attemptVars,
                   rateVars, ledgerVars, summary, initVars, flagVars, lastVars>>

(* msgTemplate.Render(contact) for the contacts parsed: the data maps *)
RenderContacts ==
    /\ parsed.err = "nil"
    /\ parsed.contacts # <<>>
    /\ templateData = <<>>
    /\ templateData' = [k \in DOMAIN parsed.contacts |-> RenderData(parsed.contacts[k])]
    /\ UNCHANGED <<parseInput, parsed, mainVars, sendVars, attemptVars,
                   rateVars, ledgerVars, summary, initVars, flagVars, lastVars>>

NextParse == CallParseCSV \/ RenderContacts

SpecParse == InitParse /\ [][NextParse]_vars

(* C14: the template variables .Name and .PhoneNumber that Render passes    *)
(* are the contact's name and phone number, whatever other columns the CSV  *)
(* has.                                                                     *)
C14_NameAndPhoneKept ==
    \A k \in DOMAIN templateData :
        /\ templateData[k]["Name"] = parsed.contacts[k].Name
        /\ templateData[k]["PhoneNumber"] = parsed.contacts[k].PhoneNumber

HasHeaderRow(file) == file.exists /\ Len(file.records) >= 1

HasNameAndPhoneColumns(file) ==
    /\ HasHeaderRow(file)
    /\ ~Lacks(file.records[1], {"name"})
    /\ ~Lacks(file.records[1], {"phone_number", "phone"})

(* A data row has as many cells as the header and a phone number in every   *)
(* phone column                                                             *)
WellFormedRows(file) ==
    \A k \in 2..Len(file.records) :
        /\ Len(file.records[k]) = Len(file.records[1])
        /\ \A j \in DOMAIN file.records[1] :
              ToLower(TrimSpace(file.records[1][j])) \in {"phone_number", "phone"}
                  => TrimSpace(file.records[k][j]) # ""

(* C15: ParseCSV returns an error and no contacts unless the header has a   *)
(* name column and a phone_number or phone column (case-insensitive, after  *)
(* trimming); with both and well-formed data rows it returns no error.      *)
C15_ParseNeedsNameAndPhone ==
    parsed # NoParse =>
        /\ ~HasNameAndPhoneColumns(parseInput) =>
              parsed.err # "nil" /\ parsed.contacts = <<>>
        /\ parsed.err # "nil" => parsed.contacts = <<>>
        /\ (HasNameAndPhoneColumns(parseInput) /\ WellFormedRows(parseInput)) =>
              parsed.err = "nil"

C15_Witness ==
    /\ parseInput.exists
    /\ Len(parseInput.records) = 2
    /\ parseInput.records[1] = <<"phone", "Name ", "code">>
    /\ parsed.err = "nil"
    /\ Len(parsed.contacts) = 1
    /\ parsed.contacts[1].Name = "111"
    /\ parsed.contacts[1].PhoneNumber = "Ann"

----------------------------------------------------------------------------
(* WhatsAppClient.Initialize: the wait for the login. A goroutine runs      *)
(* WaitVisible under a context with the QR timeout and sends the result on  *)
(* done; Initialize selects on done and on a 10-second progress ticker.     *)
(* Time is in seconds; it passes only when no step is ready to be taken.    *)

MaxQRTimeout == 12

(* done := make(chan error, 1) *)
DoneCapacity == 1

(* time.NewTicker(10 * time.Second) *)
TickerSeconds == 10

Panels ==
    {[appears |-> FALSE, at |-> 0]}
    \cup {[appears |-> TRUE, at |-> t] : t \in 0..MaxQRTimeout}

InitInitialize ==
    /\ IdleMain
    /\ IdleSend
    /\ IdleAttempt
    /\ IdleRate
    /\ IdleLedger
    /\ summary = NoSummary
    /\ IdleParse
    /\ IdleFlag
    /\ IdleLast
    /\ initPc = "open"
    /\ initErr = "none"
    /\ goPc = "none"
    /\ goResult = "none"
    /\ done = <<>>
    /\ sentCount = 0
    /\ clock = 0
    /\ qrTimeout \in 0..MaxQRTimeout
    /\ panel \in Panels
    /\ browserGone = FALSE
    /\ progressTick = [next |-> 0, pending |-> FALSE]
    /\ progressLogs = 0

notInitVars ==
    <<mainVars, sendVars, attemptVars, rateVars, ledgerVars, summary, parseVars,
      flagVars, lastVars>>

(* The mutant whose context has no deadline *)
DeadlineNever(t, timeout) == FALSE

(* context.WithTimeout(c.ctx, QRTimeoutSeconds * time.Second) has expired *)
DeadlineReached(t, timeout) == t >= timeout

PanelVisible == panel.appears /\ clock >= panel.at /\ ~browserGone

(* Chrome is started and navigated; then the goroutine and the ticker start *)
OpenWhatsApp ==
    /\ initPc = "open"
    /\ \E navOK \in BOOLEAN :
          IF navOK
          THEN /\ initPc' = "waiting"
               /\ goPc' = "running"
               /\ progressTick' = [next |-> TickerSeconds, pending |-> FALSE]
               /\ UNCHANGED initErr
          ELSE /\ initPc' = "returned"
               /\ initErr' = "failed to navigate to WhatsApp Web"
               /\ UNCHANGED <<goPc, progressTick>>
    /\ UNCHANGED <<goResult, done, sentCount, clock, qrTimeout, panel,
                   browserGone, progressLogs, notInitVars>>

(* The user closes the browser while WaitVisible is running *)
BrowserCloses ==
    /\ initPc = "waiting"
    /\ goPc = "running"
    /\ ~browserGone
    /\ browserGone' = TRUE
    /\ UNCHANGED <<initPc, initErr, goPc, goResult, done, sentCount, clock,
                   qrTimeout, panel, progressTick, progressLogs, notInitVars>>

(* chromedp.Run(timeoutCtx, WaitVisible(side)) returns in the goroutine *)
WaitVisibleReturns ==
    /\ goPc = "running"
    /\ \E r \in {"nil", "context deadline exceeded", "context canceled"} :
          /\ \/ r = "nil" /\ PanelVisible
             \/ r = "context deadline exceeded" /\ DeadlineReached(clock, qrTimeout)
             \/ r = "context canceled" /\ browserGone
          /\ goResult' = r
    /\ goPc' = "sending"
    /\ UNCHANGED <<initPc, initErr, done, sentCount, clock, qrTimeout, panel,
                   browserGone, progressTick, progressLogs, notInitVars>>

(* done <- result: possible when the channel has room *)
SendDone ==
    /\ goPc = "sending"
    /\ Len(done) < DoneCapacity
    /\ done' = Append(done, goResult)
    /\ sentCount' = sentCount + 1
    /\ goPc' = "exited"
    /\ UNCHANGED <<initPc, initErr, goResult, clock, qrTimeout, panel,
                   browserGone, progressTick, progressLogs, notInitVars>>

(* strings.Contains(err.Error(), "context deadline exceeded") *)
IsDeadlineError(err) == err = "context deadline exceeded"

(* case err = <-done: break waitLoop, and what Initialize returns then *)
ReceiveDone ==
    /\ initPc = "waiting"
    /\ done # <<>>
    /\ done' = Tail(done)
    /\ initErr' = IF Head(done) = "nil" THEN "nil"
                  ELSE IF IsDeadlineError(Head(done))
                  THEN "timeout waiting for WhatsApp Web login"
                  ELSE "failed to load WhatsApp Web"
    /\ initPc' = "returned"
    /\ UNCHANGED <<goPc, goResult, sentCount, clock, qrTimeout, panel,
                   browserGone, progressTick, progressLogs, notInitVars>>

(* case <-ticker.C: a progress line while time remains *)
ReceiveTick ==
    /\ initPc = "waiting"
    /\ progressTick.pending
    /\ progressTick' = [progressTick EXCEPT !.pending = FALSE]
    /\ progressLogs' = IF qrTimeout - clock > 0 THEN progressLogs + 1
                       ELSE progressLogs
    /\ UNCHANGED <<initPc, initErr, goPc, goResult, done, sentCount, clock,
                   qrTimeout, panel, browserGone, notInitVars>>

(* A second passes while Initialize and the goroutine are both blocked *)
SecondPasses ==
    /\ initPc = "waiting"
    /\ goPc = "running"
    /\ done = <<>>
    /\ ~progressTick.pending
    /\ ~PanelVisible
    /\ ~browserGone
    /\ ~DeadlineReached(clock, qrTimeout)
    /\ clock < MaxQRTimeout
    /\ clock' = clock + 1
    /\ progressTick' = IF clock + 1 = progressTick.next
                       THEN [next |-> progressTick.next + TickerSeconds,
                             pending |-> TRUE]
                       ELSE progressTick
    /\ UNCHANGED <<initPc, initErr, goPc, goResult, done, sentCount, qrTimeout,
                   panel, browserGone, progressLogs, notInitVars>>

NextInitialize ==
    \/ OpenWhatsApp
    \/ BrowserCloses
    \/ WaitVisibleReturns
    \/ SendDone
    \/ ReceiveDone
    \/ ReceiveTick
    \/ SecondPasses

(* The Go scheduler runs a goroutine that can take a step, and time passes *)
SpecInitialize ==
    InitInitialize /\ [][NextInitialize]_vars /\ WF_vars(NextInitialize)

TimeoutError == "timeout waiting for WhatsApp Web login"

WaitBegan == goPc # "none"

InitializeSafe ==
    /\ initPc = "waiting" => clock <= qrTimeout
    /\ goPc = "sending" => Len(done) < DoneCapacity
    /\ sentCount <= 1
    /\ (initPc = "returned" /\ WaitBegan) =>
          /\ sentCount = 1
          /\ goPc = "exited"
          /\ done = <<>>
    /\ (initPc = "returned" /\ WaitBegan /\ ~panel.appears /\ ~browserGone) =>
          initErr = TimeoutError

(* C16: while the browser stays open, Initialize waits at most              *)
(* qr_timeout_seconds and returns the timeout error when the side panel     *)
(* never becomes visible; the goroutine sends exactly one result and its    *)
(* send never finds the channel full; Initialize always returns.            *)
C16_InitializeReturns ==
    []InitializeSafe /\ <>(initPc = "returned")

C16_Witness ==
    /\ initPc = "returned"
    /\ initErr = TimeoutError
    /\ ~panel.appears
    /\ ~browserGone
    /\ qrTimeout > TickerSeconds
    /\ progressLogs = 1
    /\ sentCount = 1

(* C16 as stated: whenever the side panel never becomes visible, what       *)
(* Initialize returns after the wait is the timeout error.                  *)
C16_NeverVisibleIsTimeout ==
    (initPc = "returned" /\ WaitBegan /\ ~panel.appears) => initErr = TimeoutError

----------------------------------------------------------------------------
(* The flag-based program (main.go): contacts are maps from header to cell, *)
(* completed.csv is keyed on the number column, and sendMessage drives the  *)
(* page with chromedp queries. Delays are in seconds.                       *)

MaxFlagDelay == 2

(* Reading a key a Go map does not hold gives the zero value *)
Get(data, k) == IF k \in DOMAIN data THEN data[k] ELSE ""

ContactsHeader == <<"name", "number">>

FlagContact(name, number) ==
    [Data |-> [h \in {"name", "number"} |-> IF h = "name" THEN name ELSE number],
     Order |-> ContactsHeader]

FlagContactUniverse ==
    {FlagContact("Ann", "111"), FlagContact("Ann B", "111 "),
     FlagContact("Bob", "222"), FlagContact("Cy", "")}

FlagContactLists ==
    UNION {[1..n -> FlagContactUniverse] : n \in 0..MaxContacts}

FlagTplName == "Hi {{.name}}"
FlagTplIndex == "{{index .name 9}}"

(* renderTemplate: indexing a name at byte 9 is out of range for every name *)
(* of the model                                                             *)
renderTemplate(templateText, data) ==
    IF templateText = FlagTplIndex
    THEN [err |-> "index out of range", msg |-> ""]
    ELSE [err |-> "nil", msg |-> "Hi " \o Get(data, "name")]

(* strings.EqualFold(h, "number") *)
EqualFoldNumber(h) == h \in {"number", "Number"}

(* readCompleted: the first header that is "number" whatever its case names *)
(* the column; csv's Read fails on a row that is not as wide as the header  *)
readCompleted(file) ==
    IF ~file.exists \/ file.records = <<>>
    THEN [err |-> "nil", completed |-> {}]
    ELSE LET headers == file.records[1]
             hits == {i \in DOMAIN headers : EqualFoldNumber(headers[i])}
         IN  IF hits = {} THEN [err |-> "nil", completed |-> {}]
             ELSE LET index == CHOOSE i \in hits : \A j \in hits : i <= j
                  IN  IF \E k \in 2..Len(file.records) :
                            Len(file.records[k]) # Len(headers)
                      THEN [err |-> "wrong number of fields", completed |-> {}]
                      ELSE [err |-> "nil",
                            completed |-> {TrimSpace(file.records[k][index]) :
                                              k \in 2..Len(file.records)}]

(* readHeader: csv's Read returns io.EOF on a zero-length file *)
readHeader(file) ==
    IF file.records = <<>> THEN [err |-> "EOF", headers |-> <<>>]
    ELSE [err |-> "nil", headers |-> file.records[1]]

RecordFor(headers, c) == [i \in DOMAIN headers |-> Get(c.Data, headers[i])]

(* appendCompleted; ioOK is whether os.Create / os.OpenFile succeeds. A      *)
(* contact read by readContacts always has a non-empty Order.               *)
appendCompleted(file, c, ioOK) ==
    IF ~file.exists
    THEN IF ~ioOK THEN [err |-> "create failed", file |-> file]
         ELSE [err |-> "nil",
               file |-> [exists |-> TRUE,
                         records |-> <<c.Order, RecordFor(c.Order, c)>>]]
    ELSE LET h == readHeader(file)
         IN  IF h.err # "nil" THEN [err |-> h.err, file |-> file]
             ELSE IF ~ioOK THEN [err |-> "open failed", file |-> file]
             ELSE [err |-> "nil",
                   file |-> [exists |-> TRUE,
                             records |-> Append(file.records,
                                                RecordFor(h.headers, c))]]

(* randomDelay: the values min + rand.Int63n(diff + 1) can take *)
randomDelay(min, max) ==
    IF max <= min THEN {min} ELSE {min + r : r \in 0..(max - min)}

(* What the page answers during one sendMessage call. A chromedp query       *)
(* (Click, WaitVisible) returns nil once its selector matches, waits while  *)
(* it does not, and returns an error when its context ends.                 *)
FlagPollOutcomes == {"eval error", "invalid", "ready", "neither"}

DismissSelectors == <<"popup-controls-ok", "aria-label OK", "title OK", "title Close">>
InputSelectors == <<"data-tab 10", "role textbox">>

FlagSendEnv ==
    {e \in [navOK : BOOLEAN,
            polls : UNION {[1..n -> FlagPollOutcomes] : n \in 0..MaxPolls},
            okButton : 0..Len(DismissSelectors),
            inputs : SUBSET (1..Len(InputSelectors)),
            ctxEnds : BOOLEAN,
            actions : {"ok", "focus fails", "typing fails", "enter fails"}] :
        /\ \A k \in 1..(Len(e.polls) - 1) : e.polls[k] \in {"eval error", "neither"}
        /\ ~e.navOK => e.polls = <<>>
        /\ (e.polls = <<>> \/ e.polls[Len(e.polls)] # "invalid") => e.okButton = 0
        /\ (e.polls = <<>> \/ e.polls[Len(e.polls)] # "ready") =>
              e.inputs = {} /\ e.actions = "ok"
        /\ (e.polls = <<>> \/ e.polls[Len(e.polls)] \in {"eval error", "neither"})
              => ~e.ctxEnds
        /\ e.inputs = {} => e.actions = "ok"}

RECURSIVE waitForChatOrInvalid(_, _)
waitForChatOrInvalid(polls, k) ==
    IF k > Len(polls) THEN [invalid |-> FALSE, err |-> "context deadline exceeded"]
    ELSE IF polls[k] = "invalid" THEN [invalid |-> TRUE, err |-> "nil"]
    ELSE IF polls[k] = "ready" THEN [invalid |-> FALSE, err |-> "nil"]
    ELSE waitForChatOrInvalid(polls, k + 1)

(* dismissInvalid: Click on each selector in turn until one returns nil. A   *)
(* Click whose selector is not there waits; if the context ends meanwhile   *)
(* (ended) it and every later Click return an error                         *)
RECURSIVE dismissInvalid(_, _, _)
dismissInvalid(env, k, ended) ==
    IF k > Len(DismissSelectors) THEN "not dismissed"
    ELSE IF ended THEN dismissInvalid(env, k + 1, TRUE)
    ELSE IF env.okButton = k THEN "dismissed"
    ELSE IF env.ctxEnds THEN dismissInvalid(env, k + 1, TRUE)
    ELSE "waits"

(* The loop over inputSelectors with WaitVisible: 0 when none was found *)
RECURSIVE FindInput(_, _, _)
FindInput(env, k, ended) ==
    IF k > Len(InputSelectors) THEN [sel |-> 0, waits |-> FALSE]
    ELSE IF ended THEN FindInput(env, k + 1, TRUE)
    ELSE IF k \in env.inputs THEN [sel |-> k, waits |-> FALSE]
    ELSE IF env.ctxEnds THEN FindInput(env, k + 1, TRUE)
    ELSE [sel |-> 0, waits |-> TRUE]

errInvalidNumber == "invalid number"

SendResult(err, invalid, dismissed, typed, entered, waits) ==
    [err |-> err, invalid |-> invalid, dismissed |-> dismissed, typed |-> typed,
     entered |-> entered, waits |-> waits]

(* sendMessage; waits is TRUE when the call never returns *)
sendMessage(env) ==
    IF ~env.navOK THEN SendResult("navigate failed", FALSE, FALSE, FALSE, FALSE, FALSE)
    ELSE LET w == waitForChatOrInvalid(env.polls, 1)
         IN  IF w.err # "nil" THEN SendResult(w.err, FALSE, FALSE, FALSE, FALSE, FALSE)
             ELSE IF w.invalid
             THEN LET d == dismissInvalid(env, 1, FALSE)
                  IN  IF d = "waits"
                      THEN SendResult("none", TRUE, FALSE, FALSE, FALSE, TRUE)
                      ELSE SendResult(errInvalidNumber, TRUE, d = "dismissed",
                                      FALSE, FALSE, FALSE)
             ELSE LET i == FindInput(env, 1, FALSE)
                  IN  IF i.waits
                      THEN SendResult("none", FALSE, FALSE, FALSE, FALSE, TRUE)
                      ELSE IF i.sel = 0
                      THEN SendResult("could not find message input field",
                                      FALSE, FALSE, FALSE, FALSE, FALSE)
                      ELSE IF env.actions = "ok"
                      THEN SendResult("nil", FALSE, FALSE, TRUE, TRUE, FALSE)
                      ELSE SendResult(env.actions, FALSE, FALSE,
                                      env.actions = "enter fails", FALSE, FALSE)

(* completed.csv before the first run: absent, zero-length, the header of   *)
(* the contacts file alone and with Ann's row, a file whose number column   *)
(* is headed "Number", and a file without a number column                   *)
FlagInitialFiles ==
    {[exists |-> FALSE, records |-> <<>>],
     [exists |-> TRUE, records |-> <<>>],
     [exists |-> TRUE, records |-> <<ContactsHeader>>],
     [exists |-> TRUE, records |-> <<ContactsHeader, <<"Ann", "111 ">> >>],
     [exists |-> TRUE, records |-> <<(<<"Number">>), <<"111">> >>],
     [exists |-> TRUE, records |-> <<(<<"name">>)>>]}

InitFlag ==
    /\ IdleMain
    /\ IdleSend
    /\ IdleAttempt
    /\ IdleRate
    /\ IdleLedger
    /\ summary = NoSummary
    /\ IdleParse
    /\ IdleInitialize
    /\ IdleLast
    /\ fContacts \in FlagContactLists
    /\ fTemplate \in {FlagTplName, FlagTplIndex}
    /\ fFile \in FlagInitialFiles
    /\ fCompleted = {}
    /\ fPc = "start"
    /\ fIdx = 1
    /\ fCalls = <<>>
    /\ fProcessed = <<>>
    /\ fSlept = 0
    /\ fRun = 1
    /\ fStartNumbers = {}
    /\ fAppended = {}
    /\ fMinDelay \in 0..MaxFlagDelay
    /\ fMaxDelay \in 0..MaxFlagDelay

notFlagVars ==
    <<mainVars, sendVars, attemptVars, rateVars, ledgerVars, summary, parseVars,
      initVars, lastVars>>

(* The trimmed cells of the number column of completed.csv *)
NumberColumn(file) ==
    IF ~file.exists \/ file.records = <<>> THEN {}
    ELSE {TrimSpace(file.records[k][i]) :
            k \in 2..Len(file.records),
            i \in {j \in DOMAIN file.records[1] : EqualFoldNumber(file.records[1][j])}}

(* main up to the range loop: the flags are checked, the contacts and the   *)
(* completed file are read                                                  *)
FlagStart ==
    /\ fPc = "start"
    /\ LET r == readCompleted(fFile)
       IN  IF fMaxDelay < fMinDelay \/ r.err # "nil"
           THEN fPc' = "fatal" /\ UNCHANGED <<fCompleted, fStartNumbers>>
           ELSE IF Len(fContacts) = 0
           THEN fPc' = "done" /\ UNCHANGED <<fCompleted, fStartNumbers>>
           ELSE /\ fPc' = "loop"
                /\ fCompleted' = r.completed
                /\ fStartNumbers' = NumberColumn(fFile)
    /\ UNCHANGED <<fContacts, fTemplate, fFile, fIdx, fCalls, fProcessed, fSlept,
                   fRun, fAppended, fMinDelay, fMaxDelay, notFlagVars>>

(* The mutant that never finds a number completed *)
AlreadyCompletedNever(numbers, number) == FALSE

(* if completed[number] { continue } *)
AlreadyCompleted(numbers, number) == number \in numbers

(* continue / the end of the loop body *)
FlagContinue(number, how, rowsAdded, slept, ioOK) ==
    /\ fIdx' = fIdx + 1
    /\ fProcessed' = Append(fProcessed,
           [number |-> number, how |-> how, rowsAdded |-> rowsAdded,
            slept |-> slept, ioOK |-> ioOK])

AppendedInRun == {fProcessed[k].number : k \in {j \in DOMAIN fProcessed :
                                                  fProcessed[j].how = "sent"}}

(* One iteration of the range loop of the flag-based main *)
FlagProcess ==
    /\ fPc = "loop"
    /\ fIdx <= Len(fContacts)
    /\ LET c == fContacts[fIdx]
           number == TrimSpace(Get(c.Data, "number"))
       IN  IF number = ""
           THEN /\ FlagContinue(number, "no number", 0, 0, TRUE)
                /\ UNCHANGED <<fFile, fCompleted, fPc, fCalls, fSlept, fAppended>>
           ELSE IF AlreadyCompleted(fCompleted, number)
           THEN /\ FlagContinue(number, "skipped", 0, 0, TRUE)
                /\ UNCHANGED <<fFile, fCompleted, fPc, fCalls, fSlept, fAppended>>
           ELSE IF renderTemplate(fTemplate, c.Data).err # "nil"
           THEN /\ FlagContinue(number, "render failed", 0, 0, TRUE)
                /\ UNCHANGED <<fFile, fCompleted, fPc, fCalls, fSlept, fAppended>>
           ELSE \E env \in FlagSendEnv :
                LET s == sendMessage(env)
                    call == [idx |-> fIdx, number |-> number, res |-> s,
                             known |-> number \in fStartNumbers \cup AppendedInRun,
                             everAppended |-> number \in fAppended,
                             ctxEnded |-> env.ctxEnds, gap |-> fSlept]
                IN  /\ fCalls' = Append(fCalls, call)
                    /\ IF s.waits
                       THEN /\ fPc' = "hung"
                            /\ UNCHANGED <<fFile, fCompleted, fIdx, fProcessed,
                                           fSlept, fAppended>>
                       ELSE IF s.err # "nil"
                       THEN /\ FlagContinue(number,
                                   IF s.err = errInvalidNumber THEN "invalid"
                                   ELSE "send failed", 0, 0, TRUE)
                            /\ fSlept' = 0
                            /\ UNCHANGED <<fFile, fCompleted, fPc, fAppended>>
                       ELSE \E ioOK \in BOOLEAN,
                               delay \in randomDelay(fMinDelay, fMaxDelay) :
                            LET a == appendCompleted(fFile, c, ioOK)
                            IN  /\ fFile' = a.file
                                /\ fCompleted' = IF a.err = "nil"
                                                 THEN fCompleted \cup {number}
                                                 ELSE fCompleted
                                /\ fAppended' = IF a.err = "nil"
                                                THEN fAppended \cup {number}
                                                ELSE fAppended
                                /\ fSlept' = delay
                                /\ FlagContinue(number,
                                       IF a.err = "nil" THEN "sent"
                                       ELSE "sent, append failed",
                                       Len(a.file.records) - Len(fFile.records),
                                       delay, ioOK)
                                /\ UNCHANGED fPc
    /\ UNCHANGED <<fContacts, fTemplate, fRun, fStartNumbers, fMinDelay,
                   fMaxDelay, notFlagVars>>

(* The range is exhausted and main returns *)
FlagFinish ==
    /\ fPc = "loop"
    /\ fIdx > Len(fContacts)
    /\ fPc' = "done"
    /\ UNCHANGED <<fContacts, fTemplate, fFile, fCompleted, fIdx, fCalls,
                   fProcessed, fSlept, fRun, fStartNumbers, fAppended, fMinDelay,
                   fMaxDelay, notFlagVars>>

(* The program is stopped (or has ended) and is started again over the same *)
(* files                                                                    *)
FlagRestart ==
    /\ fPc \in {"loop", "done", "hung", "fatal"}
    /\ fRun < MaxRuns
    /\ fRun' = fRun + 1
    /\ fPc' = "start"
    /\ fCompleted' = {}
    /\ fIdx' = 1
    /\ fCalls' = <<>>
    /\ fProcessed' = <<>>
    /\ fSlept' = 0
    /\ fStartNumbers' = {}
    /\ UNCHANGED <<fContacts, fTemplate, fFile, fAppended, fMinDelay, fMaxDelay,
                   notFlagVars>>

NextFlag == FlagStart \/ FlagProcess \/ FlagFinish \/ FlagRestart

SpecFlag == InitFlag /\ [][NextFlag]_vars

(* C17: a contact whose trimmed number was in the number column of          *)
(* completed.csv when the run started, or was appended earlier in the run,  *)
(* is never passed to sendMessage.                                          *)
C17_CompletedNumberSkipped ==
    \A k \in DOMAIN fCalls : ~fCalls[k].known

C17_Witness ==
    /\ fPc = "done"
    /\ fRun = 2
    /\ Len(fProcessed) = 2
    /\ fProcessed[1].how = "skipped"
    /\ fProcessed[2].how = "skipped"
    /\ fProcessed[1].number = "111"
    /\ fProcessed[2].number = "222"

(* C18: while the file system lets completed.csv be created and opened,    *)
(* every successful send appends its contact before the next contact is     *)
(* processed; an iteration that did not send appends no row; and after a    *)
(* restart no contact whose append completed is passed to sendMessage.      *)
C18_AppendedAfterEachSend ==
    /\ \A k \in DOMAIN fProcessed :
          /\ (fProcessed[k].how = "sent, append failed") => ~fProcessed[k].ioOK
          /\ fProcessed[k].how = "sent" => fProcessed[k].rowsAdded >= 1
          /\ fProcessed[k].how \notin {"sent", "sent, append failed"}
                => fProcessed[k].rowsAdded = 0
    /\ \A k \in DOMAIN fCalls : ~fCalls[k].everAppended

(* C19: when the page reports the number invalid (and the browser context   *)
(* stays up), sendMessage dismisses the pop-up and returns errInvalidNumber *)
(* without typing or pressing Enter, no row is appended, and the loop goes  *)
(* on to the next contact.                                                  *)
C19_InvalidNumberSkipped ==
    \A k \in DOMAIN fCalls :
        LET call == fCalls[k]
        IN  (call.res.invalid /\ ~call.ctxEnded) =>
                /\ call.res.err = errInvalidNumber
                /\ call.res.dismissed
                /\ ~call.res.typed
                /\ ~call.res.entered
                /\ ~call.res.waits
                /\ Len(fProcessed) >= call.idx
                /\ fProcessed[call.idx].how = "invalid"
                /\ fProcessed[call.idx].rowsAdded = 0

(* C20: a delay between min-delay and max-delay is slept after a message,   *)
(* and between two consecutive sendMessage calls of a run at least          *)
(* min-delay is slept, however the earlier call ended.                      *)
C20_DelayBetweenCalls ==
    /\ \A k \in DOMAIN fProcessed :
          fProcessed[k].how \in {"sent", "sent, append failed"} =>
              /\ fMinDelay <= fProcessed[k].slept
              /\ fProcessed[k].slept <= fMaxDelay
    /\ \A k \in 2..Len(fCalls) : fCalls[k].gap >= fMinDelay

----------------------------------------------------------------------------
(* The hash of a contact over the calls and runs of the tracker             *)
(* (CompletedTracker.generateHash, IsCompleted, MarkCompleted)              *)

MaxHashCalls == 3

InitHash ==
    /\ IdleMain
    /\ IdleSend
    /\ IdleAttempt
    /\ IdleRate
    /\ IdleLedger
    /\ summary = NoSummary
    /\ IdleParse
    /\ IdleInitialize
    /\ IdleFlag
    /\ hTemplate \in {TplHello, TplName}
    /\ hFile = [exists |-> FALSE, records |-> <<>>]
    /\ hTracker = EmptyMap
    /\ hRun = 1
    /\ hCalls = <<>>

notHashVars ==
    <<mainVars, sendVars, attemptVars, rateVars, ledgerVars, summary, parseVars,
      initVars, flagVars>>

HashCall(op, contact, order, answer) ==
    [op |-> op, contact |-> contact, order |-> order,
     hash |-> generateHash(hTemplate, contact, order),
     ledger |-> hFile.records, run |-> hRun, answer |-> answer]

(* tracker.MarkCompleted(contact); the range over contact.Fields visits the *)
(* keys in some order                                                       *)
HashMarkCompleted ==
    /\ Len(hCalls) < MaxHashCalls
    /\ \E contact \in ContactUniverse :
       \E order \in Orders(DOMAIN contact.Fields) :
          LET r == MarkCompleted(hTracker, hFile, hTemplate, contact, order, TRUE)
          IN  /\ hTracker' = r.completed
              /\ hFile' = r.file
              /\ hCalls' = Append(hCalls, HashCall("MarkCompleted", contact, order, TRUE))
    /\ UNCHANGED <<hTemplate, hRun, notHashVars>>

(* tracker.IsCompleted(contact) *)
HashIsCompleted ==
    /\ Len(hCalls) < MaxHashCalls
    /\ \E contact \in ContactUniverse :
       \E order \in Orders(DOMAIN contact.Fields) :
          hCalls' = Append(hCalls,
                       HashCall("IsCompleted", contact, order,
                                IsCompleted(hTracker, hTemplate, contact, order)))
    /\ UNCHANGED <<hTemplate, hFile, hTracker, hRun, notHashVars>>

(* The program is started again: NewCompletedTracker loads completed.csv *)
HashNewRun ==
    /\ hRun < MaxRuns
    /\ hCalls # <<>>
    /\ hRun' = hRun + 1
    /\ hTracker' = NewCompletedTracker(hFile).completed
    /\ UNCHANGED <<hTemplate, hFile, hCalls, notHashVars>>

NextHash == HashMarkCompleted \/ HashIsCompleted \/ HashNewRun

SpecHash == InitHash /\ [][NextHash]_vars

(* C21: the hash depends only on the contact's contents: two calls on the   *)
(* same contact (equal phone number, name, template and additional fields)  *)
(* compute the same hash whatever the order in which the fields are         *)
(* visited, and two IsCompleted calls on the same contact over the same     *)
(* completed.csv give the same answer, in whichever run they are made.      *)
C21_HashOfContentsOnly ==
    \A i, j \in DOMAIN hCalls :
        hCalls[i].contact = hCalls[j].contact =>
            /\ hCalls[i].hash = hCalls[j].hash
            /\ (/\ hCalls[i].op = "IsCompleted"
                /\ hCalls[j].op = "IsCompleted"
                /\ hCalls[i].ledger = hCalls[j].ledger)
                   => hCalls[i].answer = hCalls[j].answer

====
